---- MODULE Spec2Model ----
(***************************************************************************)
(* Model of src/server/server.js: the bulk e-mail job lifecycle            *)
(* (POST /api/send-emails, processEmailJob, sendEmail) and the SSE         *)
(* progress stream (GET /api/send-emails-sse, sendToClient).               *)
(*                                                                         *)
(* Node runs every handler to completion between two suspension points,    *)
(* so one action is one run of the event loop: a request handler, a timer  *)
(* callback, or the resumption of processEmailJob after an await.          *)
(***************************************************************************)
EXTENDS Integers, Sequences, FiniteSets, TLC

\* ---------------------------------------------------------------- bounds
MaxStarts == 2      \* accepted start requests (one job object and one timer each)
MaxLen == 2         \* recipient rows of one request
MaxConns == 2       \* SSE connections opened
MaxLoad == 4        \* requests of one scenario: a start weighs two, a subscribe one

Identities == {"a@x", "b@x"}          \* sender identities (req.body.email)
JobIds == 1..MaxStarts
ConnIds == 1..MaxConns

\* ---------------------------------------------------------------- inputs
\* A recipient row: TRUE where the column holds a truthy (non-empty) value.
FullRow == [Name |-> TRUE, Email |-> TRUE, Company |-> TRUE, Role |-> TRUE]
RowInputs == {FullRow, [FullRow EXCEPT !.Role = FALSE]}
\* An element of manual data that is not a record (a character of a JSON string):
\* every column reads undefined.
NonRecordRow == [Name |-> FALSE, Email |-> FALSE, Company |-> FALSE, Role |-> FALSE]

\* userType and whether customEmailBody is a non-empty string (else null).
TemplateInputs ==
  { [userType |-> "navneet", customEmailBody |-> FALSE],
    [userType |-> "other",   customEmailBody |-> TRUE],
    [userType |-> "other",   customEmailBody |-> FALSE],
    [userType |-> "bogus",   customEmailBody |-> FALSE] }

RECURSIVE SeqsUpTo(_, _)
SeqsUpTo(S, n) ==
  IF n = 0 THEN {<< >>}
  ELSE LET shorter == SeqsUpTo(S, n - 1)
       IN shorter \cup {Append(s, x) : s \in {t \in shorter : Len(t) = n - 1}, x \in S}

DataInputs == SeqsUpTo(RowInputs, MaxLen)

\* The start requests.  mode is req.body.mode; src says what the recipient source
\* holds: "list" (an uploaded file that parses to rows, or manual data that is a
\* JSON array), "none" (no file, no req.body.data) or "string" (manual data that
\* is a JSON string, whose elements are characters).  Every manual list request
\* with credentials, plus one request of each other kind.
Builtin == [userType |-> "navneet", customEmailBody |-> FALSE]

StartInputs ==
  [email : Identities, creds : {TRUE}, mode : {"manual"}, src : {"list"},
   tpl : TemplateInputs, data : DataInputs]
    \cup [email : Identities, creds : {FALSE}, mode : {"manual"}, src : {"list"},
          tpl : {Builtin}, data : {<<FullRow>>}]
    \cup [email : Identities, creds : {TRUE}, mode : {"csv", "bogus"}, src : {"list"},
          tpl : {Builtin}, data : {<<FullRow>>}]
    \cup [email : Identities, creds : {TRUE}, mode : {"csv", "manual"}, src : {"none"},
          tpl : {Builtin}, data : {<< >>}]
    \cup [email : Identities, creds : {TRUE}, mode : {"manual"}, src : {"string"},
          tpl : {Builtin}, data : {<<NonRecordRow>>}]

\* ---------------------------------------------------------------- events
LogEv(msg, row, total) == [type |-> "log", msg |-> msg, row |-> row, total |-> total]
ProgressEv(t, c, s, f) == [type |-> "progress", total |-> t, current |-> c, success |-> s, failed |-> f]
CompleteEv(s, f) == [type |-> "complete", success |-> s, failed |-> f]

\* ---------------------------------------------------------------- state
VARIABLES
  emailJobs,   \* Map emailJobs: identity -> job object (0 = no entry)
  jobs,        \* the job objects created by the start handler, by creation order
  nstarts,     \* number of accepted start requests so far
  loops,       \* loops[k]: the processEmailJob call scheduled by start k
  clients,     \* Map clients: clientId -> connection (0 = no entry)
  conns,       \* the SSE connections: state, clientId, email, what res.write was called with
  nconns,      \* number of connections opened so far
  lastId,      \* the latest Date.now() reading used as a clientId
  emitted,     \* emitted[k]: the events loop k passed to sendToClient, in order
  tally,       \* tally[k][i]: what loop k did for row i (calls and counter increments)
  last,        \* the handler run that produced this state
  render       \* one call of sendEmail's custom-variant rendering: inputs, stage, texts

vars == <<emailJobs, jobs, nstarts, loops, clients, conns, nconns, lastId, emitted, tally, last, render>>

\* listData: job.data is an array (it is whatever the request's source parsed to).
NoJob == [email |-> "", data |-> << >>, listData |-> TRUE, userType |-> "", customEmailBody |-> FALSE,
          status |-> "none", total |-> 0, current |-> 0, success |-> 0, failed |-> 0]
\* shared: another start for the same identity was accepted while this call was
\* pending or running, or this one was accepted while another was.
NoLoop == [pc |-> "idle", email |-> "", job |-> 0, i |-> 0, shared |-> FALSE]
NoConn == [st |-> "none", id |-> 0, email |-> "", sink |-> << >>]
NoTally == [sendEmail |-> 0, sendMail |-> 0, success |-> 0, failed |-> 0, progress |-> 0, delay |-> 0]
NoLast == [op |-> "init", k |-> 0, c |-> 0, email |-> "", events |-> << >>, status |-> 0]
\* Texts are sequences of tokens.  stage: "none" (no rendering under way), "input"
\* (sendEmail entered with the custom variant), "resolved" (after line 651), "done"
\* (after line 660).
NoRender == [stage |-> "none", body |-> << >>,
             row |-> [Name |-> << >>, Company |-> << >>, Email |-> << >>, Role |-> << >>, Link |-> << >>],
             resolved |-> << >>, html |-> << >>]

Init ==
  /\ emailJobs = [e \in Identities |-> 0]
  /\ jobs = [j \in JobIds |-> NoJob]
  /\ nstarts = 0
  /\ loops = [k \in JobIds |-> NoLoop]
  /\ clients = [id \in ConnIds |-> 0]
  /\ conns = [c \in ConnIds |-> NoConn]
  /\ nconns = 0
  /\ lastId = 0
  /\ emitted = [k \in JobIds |-> << >>]
  /\ tally = [k \in JobIds |-> [i \in 1..MaxLen |-> NoTally]]
  /\ last = NoLast
  /\ render = NoRender

\* The part of the state a run of processEmailJob reads and writes.
World == [jobs |-> jobs, emailJobs |-> emailJobs, conns |-> conns, loops |-> loops,
          emitted |-> emitted, tally |-> tally]

\* ---------------------------------------------------------------- sendToClient
Registered(c) == \E id \in ConnIds : clients[id] = c

\* Faulty variant of SendToClient: a failed write ends the forEach, so the matching
\* clients registered after the failing one are not written to.
SendToClientStopsAtFailure(W, k, email, ev) ==
  LET Failing(c) == Registered(c) /\ W.conns[c].email = email /\ W.conns[c].st = "lost"
      W1 == [W EXCEPT
               !.conns = [c \in ConnIds |->
                            IF /\ Registered(c) /\ W.conns[c].email = email
                               /\ ~\E c0 \in ConnIds : c0 < c /\ Failing(c0)
                            THEN [W.conns[c] EXCEPT !.sink = Append(@, ev)]
                            ELSE W.conns[c]],
               !.emitted[k] = Append(@, ev)]
      j == W.emailJobs[email]
  IN IF ev.type = "progress" /\ j # 0
     THEN [W1 EXCEPT !.jobs[j].current = ev.current,
                     !.jobs[j].success = ev.success,
                     !.jobs[j].failed = ev.failed]
     ELSE W1

\* Faulty variant of SendToClient: the client.email === email filter is missing.
SendToClientUnfiltered(W, k, email, ev) ==
  LET W1 == [W EXCEPT
               !.conns = [c \in ConnIds |->
                            IF Registered(c)
                            THEN [W.conns[c] EXCEPT !.sink = Append(@, ev)]
                            ELSE W.conns[c]],
               !.emitted[k] = Append(@, ev)]
      j == W.emailJobs[email]
  IN IF ev.type = "progress" /\ j # 0
     THEN [W1 EXCEPT !.jobs[j].current = ev.current,
                     !.jobs[j].success = ev.success,
                     !.jobs[j].failed = ev.failed]
     ELSE W1

SendToClient(W, k, email, ev) ==
  LET W1 == [W EXCEPT
               !.conns = [c \in ConnIds |->
                            IF Registered(c) /\ W.conns[c].email = email
                            THEN [W.conns[c] EXCEPT !.sink = Append(@, ev)]
                            ELSE W.conns[c]],
               !.emitted[k] = Append(@, ev)]
      j == W.emailJobs[email]
  IN IF ev.type = "progress" /\ j # 0
     THEN [W1 EXCEPT !.jobs[j].current = ev.current,
                     !.jobs[j].success = ev.success,
                     !.jobs[j].failed = ev.failed]
     ELSE W1

\* ---------------------------------------------------------------- sendEmail
\* Faulty variant of MissingRequired: the check forgets the Role column.
MissingRequiredNoRole(row) == ~row.Name \/ ~row.Email \/ ~row.Company

\* The row check of processEmailJob: !row.Name || !row.Email || !row.Company || !row.Role
MissingRequired(row) == ~row.Name \/ ~row.Email \/ ~row.Company \/ ~row.Role

\* sendEmail throws before transporter.sendMail is reached: the custom variant
\* without a body, or a userType that is neither 'navneet' nor 'other'.
RenderThrows(job) ==
  IF job.userType = "navneet" THEN FALSE
  ELSE IF job.userType = "other" THEN ~job.customEmailBody
  ELSE TRUE

\* ---------------------------------------------------------------- processEmailJob
JobOf(W, k) == W.jobs[W.loops[k].job]

\* Faulty variant of IncFailed: job.failed++ is missing.
IncFailedNotCounted(W, k, i) ==
  [W EXCEPT !.tally[k][i].failed = @ + 1]

IncFailed(W, k, i) ==
  [W EXCEPT !.jobs[W.loops[k].job].failed = @ + 1, !.tally[k][i].failed = @ + 1]

IncSuccess(W, k, i) ==
  [W EXCEPT !.jobs[W.loops[k].job].success = @ + 1, !.tally[k][i].success = @ + 1]

\* Lines 267-275: the complete event, then emailJobs.delete(email).
Finish(W, k) ==
  LET e == W.loops[k].email
      W1 == SendToClient(W, k, e, CompleteEv(JobOf(W, k).success, JobOf(W, k).failed))
  IN [W1 EXCEPT !.emailJobs[e] = 0, !.loops[k].pc = "done"]

\* Lines 252-265: the progress event of row i, then the 3 s delay unless i is the
\* last row, in which case the for loop ends.
AfterRow(W, k, i) ==
  LET e == W.loops[k].email
      job == JobOf(W, k)
      W1 == SendToClient([W EXCEPT !.tally[k][i].progress = @ + 1], k, e,
                         ProgressEv(job.total, job.current, job.success, job.failed))
  IN IF i < Len(job.data)
     THEN [W1 EXCEPT !.loops[k].pc = "delay", !.loops[k].i = i, !.tally[k][i].delay = @ + 1]
     ELSE Finish(W1, k)

\* Lines 220-250, from the loop test for row i (1-based) up to the next await
\* that yields to the event loop, or to the end of the function.
RECURSIVE RunIter(_, _, _)
RunIter(W, k, i) ==
  LET e == W.loops[k].email
      J == W.loops[k].job
  IN IF i > Len(W.jobs[J].data) THEN Finish(W, k)
     ELSE
       LET row == W.jobs[J].data[i]
           W1 == [W EXCEPT !.jobs[J].current = i]
       IN IF MissingRequired(row)
          THEN \* log, failed++, continue: neither the progress event nor the delay
               RunIter(IncFailed(SendToClient(W1, k, e, LogEv("skip", i, 0)), k, i), k, i + 1)
          ELSE
            LET W2 == [W1 EXCEPT !.tally[k][i].sendEmail = @ + 1]
            IN IF RenderThrows(W2.jobs[J])
               THEN \* the rejected promise is caught at line 244
                    AfterRow(SendToClient(IncFailed(W2, k, i), k, e,
                                          LogEv("failed", i, W2.jobs[J].total)), k, i)
               ELSE \* suspended in transporter.sendMail
                    [W2 EXCEPT !.tally[k][i].sendMail = @ + 1,
                               !.loops[k].pc = "sending", !.loops[k].i = i]

\* Faulty variant of Enter: the setup-failure branch reports the job's own failed counter.
EnterReportsCounters(W, k, setupOk) ==
  LET e == W.loops[k].email
      J == W.emailJobs[e]
  IN IF J = 0 THEN [W EXCEPT !.loops[k].pc = "done"]
     ELSE
       LET W1 == [W EXCEPT !.loops[k].job = J, !.jobs[J].status = "processing"]
       IN IF ~setupOk
          THEN LET W2 == SendToClient(W1, k, e, LogEv("setupError", 0, 0))
                   W3 == SendToClient(W2, k, e, CompleteEv(0, W2.jobs[J].failed))
               IN [W3 EXCEPT !.emailJobs[e] = 0, !.loops[k].pc = "done"]
          ELSE RunIter(SendToClient(W1, k, e, LogEv("start", 0, W1.jobs[J].total)), k, 1)

\* Lines 188-217: entry of processEmailJob, run by the timer of start k.
\* setupOk: whether createTransporter returned instead of throwing.
Enter(W, k, setupOk) ==
  LET e == W.loops[k].email
      J == W.emailJobs[e]
  IN IF J = 0 THEN [W EXCEPT !.loops[k].pc = "done"]
     ELSE
       LET W1 == [W EXCEPT !.loops[k].job = J, !.jobs[J].status = "processing"]
       IN IF ~setupOk
          THEN LET W2 == SendToClient(W1, k, e, LogEv("setupError", 0, 0))
                   W3 == SendToClient(W2, k, e, CompleteEv(0, W2.jobs[J].total))
               IN [W3 EXCEPT !.emailJobs[e] = 0, !.loops[k].pc = "done"]
          ELSE RunIter(SendToClient(W1, k, e, LogEv("start", 0, W1.jobs[J].total)), k, 1)

\* Faulty variant of Resume: a rejected send ends the batch instead of being caught per row.
ResumeAbortOnFailure(W, k, sent) ==
  LET e == W.loops[k].email
      i == W.loops[k].i
      total == JobOf(W, k).total
  IN IF sent
     THEN AfterRow(SendToClient(IncSuccess(W, k, i), k, e, LogEv("sent", i, total)), k, i)
     ELSE Finish(SendToClient(IncFailed(W, k, i), k, e, LogEv("failed", i, total)), k)

\* Lines 236-250: processEmailJob resumes after await sendEmail for row i.
Resume(W, k, sent) ==
  LET e == W.loops[k].email
      i == W.loops[k].i
      total == JobOf(W, k).total
  IN IF sent
     THEN AfterRow(SendToClient(IncSuccess(W, k, i), k, e, LogEv("sent", i, total)), k, i)
     ELSE AfterRow(SendToClient(IncFailed(W, k, i), k, e, LogEv("failed", i, total)), k, i)

\* The suffix of emitted[k] a run added.
NewEvents(W, k) == SubSeq(W.emitted[k], Len(emitted[k]) + 1, Len(W.emitted[k]))

Commit(W, op, k) ==
  /\ jobs' = W.jobs
  /\ emailJobs' = W.emailJobs
  /\ conns' = W.conns
  /\ loops' = W.loops
  /\ emitted' = W.emitted
  /\ tally' = W.tally
  /\ last' = [NoLast EXCEPT !.op = op, !.k = k, !.email = loops[k].email,
                            !.events = NewEvents(W, k)]
  /\ UNCHANGED <<nstarts, clients, nconns, lastId, render>>

\* setTimeout(() => processEmailJob(email), 100) fires.
TimerFire(k) ==
  /\ loops[k].pc = "timer"
  /\ \E setupOk \in BOOLEAN :
       LET W == Enter(World, k, setupOk)
       IN Commit(W, IF emailJobs[loops[k].email] = 0 THEN "enterNoJob"
                    ELSE IF setupOk THEN "enter" ELSE "setupFail", k)

\* transporter.sendMail settles: resolved (sent) or rejected.
MailDone(k) ==
  /\ loops[k].pc = "sending"
  /\ \E sent \in BOOLEAN : Commit(Resume(World, k, sent), IF sent THEN "sent" ELSE "sendFailed", k)

\* The 3000 ms timer of line 263 fires: i++ and the next iteration.
DelayDone(k) ==
  /\ loops[k].pc = "delay"
  /\ Commit(RunIter(World, k, loops[k].i + 1), "delayDone", k)

\* ---------------------------------------------------------------- POST /api/send-emails
\* Lines 81-146.  req.creds: email and password are both present.
Load == 2 * nstarts + nconns

\* Lines 93-105: the value of data at line 107, or the 400 of a missing source.
\* An unknown mode leaves data = [].
ReadData(req) ==
  IF req.mode \in {"csv", "manual"}
  THEN IF req.src = "none" THEN [rejected |-> TRUE, data |-> << >>]
       ELSE [rejected |-> FALSE, data |-> req.data]
  ELSE [rejected |-> FALSE, data |-> << >>]

\* The calls of processEmailJob for identity e that are scheduled or running.
Unfinished(e) == {k \in JobIds : loops[k].email = e /\ loops[k].pc \in {"timer", "sending", "delay"}}

\* Faulty variant of Start: the job is stored as processing before its run has begun.
StartMarksProcessing(req) ==
  IF ~req.creds \/ ReadData(req).rejected \/ Len(ReadData(req).data) = 0
  THEN \* 400: missing credentials, 'No file uploaded', 'No manual data provided'
       \* or 'No valid data found'
       /\ last' = [NoLast EXCEPT !.op = "startRejected", !.status = 400]
       /\ UNCHANGED <<emailJobs, jobs, nstarts, loops, clients, conns, nconns, lastId, emitted, tally, render>>
  ELSE /\ nstarts < MaxStarts
       /\ Load + 2 <= MaxLoad
       /\ LET j == nstarts + 1
              data == ReadData(req).data
          IN /\ jobs' = [jobs EXCEPT ![j] =
                           [email |-> req.email, data |-> data, listData |-> (req.src = "list"),
                            userType |-> req.tpl.userType,
                            customEmailBody |-> req.tpl.customEmailBody, status |-> "processing",
                            total |-> Len(data), current |-> 0, success |-> 0, failed |-> 0]]
             /\ emailJobs' = [emailJobs EXCEPT ![req.email] = j]
             /\ loops' = [k \in JobIds |->
                            IF k = j
                            THEN [NoLoop EXCEPT !.pc = "timer", !.email = req.email,
                                                !.shared = (Unfinished(req.email) # {})]
                            ELSE IF k \in Unfinished(req.email)
                                 THEN [loops[k] EXCEPT !.shared = TRUE]
                                 ELSE loops[k]]
             /\ nstarts' = j
             /\ last' = [NoLast EXCEPT !.op = "start", !.k = j, !.email = req.email, !.status = 200]
       /\ UNCHANGED <<clients, conns, nconns, lastId, emitted, tally, render>>

Start(req) ==
  IF ~req.creds \/ ReadData(req).rejected \/ Len(ReadData(req).data) = 0
  THEN \* 400: missing credentials, 'No file uploaded', 'No manual data provided'
       \* or 'No valid data found'
       /\ last' = [NoLast EXCEPT !.op = "startRejected", !.status = 400]
       /\ UNCHANGED <<emailJobs, jobs, nstarts, loops, clients, conns, nconns, lastId, emitted, tally, render>>
  ELSE /\ nstarts < MaxStarts
       /\ Load + 2 <= MaxLoad
       /\ LET j == nstarts + 1
              data == ReadData(req).data
          IN /\ jobs' = [jobs EXCEPT ![j] =
                           [email |-> req.email, data |-> data, listData |-> (req.src = "list"),
                            userType |-> req.tpl.userType,
                            customEmailBody |-> req.tpl.customEmailBody, status |-> "preparing",
                            total |-> Len(data), current |-> 0, success |-> 0, failed |-> 0]]
             /\ emailJobs' = [emailJobs EXCEPT ![req.email] = j]
             /\ loops' = [k \in JobIds |->
                            IF k = j
                            THEN [NoLoop EXCEPT !.pc = "timer", !.email = req.email,
                                                !.shared = (Unfinished(req.email) # {})]
                            ELSE IF k \in Unfinished(req.email)
                                 THEN [loops[k] EXCEPT !.shared = TRUE]
                                 ELSE loops[k]]
             /\ nstarts' = j
             /\ last' = [NoLast EXCEPT !.op = "start", !.k = j, !.email = req.email, !.status = 200]
       /\ UNCHANGED <<clients, conns, nconns, lastId, emitted, tally, render>>

\* ---------------------------------------------------------------- GET /api/send-emails-sse
\* Faulty variant of Snapshot: the snapshot is sent only once the job is processing.
SnapshotOnlyProcessing(e) ==
  IF emailJobs[e] # 0 /\ jobs[emailJobs[e]].status = "processing"
  THEN LET job == jobs[emailJobs[e]]
       IN <<ProgressEv(job.total, job.current, job.success, job.failed)>>
  ELSE << >>

\* Lines 163-174: the snapshot written before the client is registered.
Snapshot(e) ==
  IF emailJobs[e] # 0
  THEN LET job == jobs[emailJobs[e]]
       IN <<ProgressEv(job.total, job.current, job.success, job.failed)>>
  ELSE << >>

\* Date.now() at line 177: the same millisecond as the previous subscribe, or a later one.
ClockReadings == {id \in {lastId, lastId + 1} : id \in ConnIds}

Subscribe(e, id) ==
  /\ nconns < MaxConns
  /\ Load + 1 <= MaxLoad
  /\ id \in ClockReadings
  /\ LET c == nconns + 1
     IN /\ conns' = [conns EXCEPT ![c] = [st |-> "open", id |-> id, email |-> e, sink |-> Snapshot(e)]]
        /\ clients' = [clients EXCEPT ![id] = c]
        /\ nconns' = c
        /\ lastId' = id
        /\ last' = [NoLast EXCEPT !.op = "subscribe", !.c = c, !.email = e, !.status = 200]
  /\ UNCHANGED <<emailJobs, jobs, nstarts, loops, emitted, tally, render>>

\* The peer of connection c goes away before the server has seen the close: from
\* here on client.res.write at line 679 fails on c.  The call returns (a write on
\* a dead response reports the failure through its return value), so the sink
\* still records the events write was called with.
PeerLost(c) ==
  /\ conns[c].st = "open"
  /\ conns' = [conns EXCEPT ![c].st = "lost"]
  /\ last' = [NoLast EXCEPT !.op = "peerLost", !.c = c, !.email = conns[c].email]
  /\ UNCHANGED <<emailJobs, jobs, nstarts, loops, clients, nconns, lastId, emitted, tally, render>>

\* req.on('close'): clients.delete(clientId)
Close(c) ==
  /\ conns[c].st \in {"open", "lost"}
  /\ clients' = [clients EXCEPT ![conns[c].id] = 0]
  /\ conns' = [conns EXCEPT ![c] = [NoConn EXCEPT !.st = "closed"]]
  /\ last' = [NoLast EXCEPT !.op = "close", !.c = c, !.email = conns[c].email]
  /\ UNCHANGED <<emailJobs, jobs, nstarts, loops, nconns, lastId, emitted, tally, render>>

\* ---------------------------------------------------------------- specification
Next ==
  \/ \E req \in StartInputs : Start(req)
  \/ \E k \in JobIds : TimerFire(k)
  \/ \E k \in JobIds : MailDone(k)
  \/ \E k \in JobIds : DelayDone(k)
  \/ \E e \in Identities, id \in ConnIds : Subscribe(e, id)
  \/ \E c \in ConnIds : PeerLost(c)
  \/ \E c \in ConnIds : Close(c)

Spec == Init /\ [][Next]_vars

\* ---------------------------------------------------------------- reading the state
\* Loop k got past the transporter setup and announced the batch.
Started(k) ==
  /\ Len(emitted[k]) > 0
  /\ emitted[k][1].type = "log"
  /\ emitted[k][1].msg = "start"

\* Loop k took the catch branch of lines 198-212.
SetupFailed(k) ==
  /\ Len(emitted[k]) > 0
  /\ emitted[k][1].type = "log"
  /\ emitted[k][1].msg = "setupError"

\* Loop k is between its entry and its complete event.
Active(k) == loops[k].pc \in {"sending", "delay"}

DataOf(k) == jobs[loops[k].job].data

EventsOfType(k, t) == SelectSeq(emitted[k], LAMBDA ev : ev.type = t)

HasLog(k, msg, i) ==
  \E n \in 1..Len(emitted[k]) :
    /\ emitted[k][n].type = "log"
    /\ emitted[k][n].msg = msg
    /\ emitted[k][n].row = i

\* Row i of loop k's job has been dealt with by loop k.
Passed(k, i) ==
  \/ loops[k].pc = "done" /\ Started(k)
  \/ Active(k) /\ i < loops[k].i
  \/ loops[k].pc = "delay" /\ i = loops[k].i

\* ---------------------------------------------------------------- C1
\* C1: every progress event a Delivery Loop emits has current = success + failed
\* and current <= total.
C1_ProgressEventsConsistent ==
  \A k \in JobIds : \A n \in 1..Len(emitted[k]) :
    emitted[k][n].type = "progress" =>
      /\ emitted[k][n].current = emitted[k][n].success + emitted[k][n].failed
      /\ emitted[k][n].current <= emitted[k][n].total

\* ---------------------------------------------------------------- C2
\* The required fields of a recipient record: name, email, company, role.
RequiredFields == {"Name", "Email", "Company", "Role"}
LacksRequiredField(row) == \E f \in RequiredFields : ~row[f]

\* C2: a row missing a required field is counted failed exactly once by the loop,
\* sendEmail (renderer) and transporter.sendMail are never called for it, and the
\* loop goes on to the rows after it.
C2_SkippedRowFailedOnceNeverSent ==
  \A k \in JobIds : loops[k].job # 0 =>
    \A i \in 1..Len(DataOf(k)) : LacksRequiredField(DataOf(k)[i]) =>
      /\ tally[k][i].sendEmail = 0
      /\ tally[k][i].sendMail = 0
      /\ tally[k][i].success = 0
      /\ tally[k][i].failed = (IF Passed(k, i) THEN 1 ELSE 0)
      /\ (Passed(k, i) /\ i < Len(DataOf(k)) =>
            \/ Passed(k, i + 1)
            \/ loops[k].pc = "sending" /\ loops[k].i = i + 1)

C2_Witness ==
  \E k \in JobIds :
    /\ loops[k].pc = "done" /\ Started(k)
    /\ Len(DataOf(k)) = 2
    /\ LacksRequiredField(DataOf(k)[1])
    /\ tally[k][1].failed = 1
    /\ tally[k][2].success = 1

\* ---------------------------------------------------------------- C3
\* C3: a finished run over N recipients has emitted exactly N progress events,
\* one after each recipient, skipped ones included.
C3_OneProgressPerRecipient ==
  \A k \in JobIds :
    /\ (loops[k].pc = "done" /\ Started(k) => Len(EventsOfType(k, "progress")) = Len(DataOf(k)))
    /\ (loops[k].job # 0 => \A i \in 1..Len(DataOf(k)) : Passed(k, i) => tally[k][i].progress = 1)

\* ---------------------------------------------------------------- C4
\* C4: a row whose send or render failed is counted failed and not success, the
\* rows after it are still processed, and the run ends with one complete event.
C4_FailureIsolated ==
  \A k \in JobIds : Started(k) =>
    /\ \A i \in 1..Len(DataOf(k)) :
         HasLog(k, "failed", i) =>
           /\ tally[k][i].failed = 1
           /\ tally[k][i].success = 0
           /\ Passed(k, i)
    /\ loops[k].pc # "done" => Active(k)
    /\ loops[k].pc = "done" =>
         /\ \A i \in 1..Len(DataOf(k)) : tally[k][i].failed + tally[k][i].success = 1
         /\ Len(EventsOfType(k, "complete")) = 1
         /\ emitted[k][Len(emitted[k])].type = "complete"

C4_Witness ==
  \E k \in JobIds :
    /\ loops[k].pc = "done" /\ Started(k)
    /\ Len(DataOf(k)) = 2
    /\ HasLog(k, "failed", 1)
    /\ tally[k][1].sendMail = 1
    /\ tally[k][2].success = 1

C4_WitnessRender ==
  \E k \in JobIds :
    /\ loops[k].pc = "done" /\ Started(k)
    /\ Len(DataOf(k)) = 2
    /\ jobs[loops[k].job].userType = "other"
    /\ HasLog(k, "failed", 1) /\ HasLog(k, "failed", 2)
    /\ tally[k][1].sendMail = 0

\* ---------------------------------------------------------------- C5
\* C5: when createTransporter throws, the run publishes exactly one log event and
\* then one complete event with success = 0 and failed = total, every subscriber
\* registered for the identity receives exactly these two, no row is touched
\* (no progress event, no sendMail call) and the identity's job leaves the store.
C5_SetupFailureStep(k) ==
  LET e == loops[k].email
      total == Len(jobs[emailJobs[e]].data)
      two == <<LogEv("setupError", 0, 0), CompleteEv(0, total)>>
  IN /\ emitted'[k] = two
     /\ loops'[k].pc = "done"
     /\ emailJobs'[e] = 0
     /\ tally'[k] = [i \in 1..MaxLen |-> NoTally]
     /\ \A c \in ConnIds :
          conns'[c].sink = IF Registered(c) /\ conns[c].email = e
                           THEN conns[c].sink \o two
                           ELSE conns[c].sink

C5_SetupFailure ==
  [][\A k \in JobIds :
       (loops[k].pc = "timer" /\ last'.op = "setupFail" /\ last'.k = k) => C5_SetupFailureStep(k)]_vars

C5_Witness ==
  /\ last.op = "setupFail"
  /\ \E c \in ConnIds :
       /\ Registered(c)
       /\ conns[c].email = last.email
       /\ Len(conns[c].sink) = 3
       /\ conns[c].sink[1].type = "progress"
       /\ conns[c].sink[3] = CompleteEv(0, 2)

\* ---------------------------------------------------------------- C6
\* C6: no job is ever stored for a request that selects the custom variant
\* ('other') without a custom body.
C6_CustomWithoutBodyRejected ==
  \A e \in Identities : emailJobs[e] # 0 =>
    ~(jobs[emailJobs[e]].userType = "other" /\ ~jobs[emailJobs[e]].customEmailBody)

\* ---------------------------------------------------------------- C7
\* C7: two runs of processEmailJob for the same identity are never both between
\* their entry and their complete event.
C7_OneLoopPerIdentity ==
  \A k1 \in JobIds, k2 \in JobIds :
    (k1 # k2 /\ Active(k1) /\ Active(k2)) => loops[k1].email # loops[k2].email

\* ---------------------------------------------------------------- C8
\* C8: whenever the store can be read, a job record with at least one processed
\* recipient has current = success + failed and 0 <= current <= total.
C8_StoreRecordConsistent ==
  \A e \in Identities : emailJobs[e] # 0 =>
    LET job == jobs[emailJobs[e]]
    IN job.success + job.failed >= 1 =>
         /\ job.current = job.success + job.failed
         /\ 0 <= job.current
         /\ job.current <= job.total

\* ---------------------------------------------------------------- C9
\* C9: what a new subscriber has received when the subscribe handler returns is
\* exactly one progress event equal to the stored job record if the identity has
\* a job, and nothing if it has none; earlier log events are not replayed.
C9_SubscribeSnapshot ==
  last.op = "subscribe" =>
    LET e == last.email
        job == jobs[emailJobs[e]]
    IN /\ conns[last.c].st = "open"
       /\ Registered(last.c)
       /\ conns[last.c].sink =
            IF emailJobs[e] # 0
            THEN <<ProgressEv(job.total, job.current, job.success, job.failed)>>
            ELSE << >>

C9_Witness ==
  /\ last.op = "subscribe"
  /\ emailJobs[last.email] # 0
  /\ jobs[emailJobs[last.email]].status = "processing"
  /\ conns[last.c].sink = <<ProgressEv(2, 2, 1, 0)>>
  /\ \E k \in JobIds : loops[k].email = last.email /\ Len(emitted[k]) >= 3

\* ---------------------------------------------------------------- C10
\* C10: the events one run of a Delivery Loop publishes for an identity are
\* appended, in emission order, to the sink of every connection registered for
\* that identity, and the sink of any other connection is left as it was.
LoopOps == {"enter", "setupFail", "enterNoJob", "sent", "sendFailed", "delayDone"}

C10_FanOut ==
  [][last'.op \in LoopOps =>
       \A c \in ConnIds :
         conns'[c].sink = IF Registered(c) /\ conns[c].email = last'.email
                          THEN conns[c].sink \o SubSeq(emitted'[last'.k], Len(emitted[last'.k]) + 1,
                                                       Len(emitted'[last'.k]))
                          ELSE conns[c].sink]_vars

C10_Witness ==
  /\ last.op = "sent"
  /\ Len(last.events) >= 2
  /\ \E c1 \in ConnIds, c2 \in ConnIds :
       /\ Registered(c1) /\ Registered(c2)
       /\ conns[c1].email = last.email
       /\ conns[c2].email # last.email
       /\ Len(conns[c1].sink) >= Len(last.events) + 1
       /\ conns[c2].sink = << >>

\* ---------------------------------------------------------------- C11
\* C11: the registry holds exactly the connections that have subscribed and not
\* yet closed: a subscribe adds its own entry and replaces or removes no other
\* (also when two connections subscribe at the same clock reading), a close
\* removes only the entry of the closing connection, and the completion of a job
\* evicts no subscriber.
C11_RegistryExact ==
  \A c \in ConnIds : conns[c].st \in {"open", "lost"} <=> Registered(c)

\* ---------------------------------------------------------------- C12
\* C12: when the start handler responds, the job it created is the store's entry
\* for the identity, in state preparing with current = success = failed = 0; the
\* processEmailJob call it scheduled has not begun: it has published no event and
\* invoked neither sendEmail nor sendMail, and its timer is still pending.
C12_StartReturnsBeforeLoop ==
  last.op = "start" =>
    LET k == last.k
    IN /\ last.status = 200
       /\ emailJobs[last.email] = k
       /\ jobs[k].status = "preparing"
       /\ jobs[k].current = 0 /\ jobs[k].success = 0 /\ jobs[k].failed = 0
       /\ emitted[k] = << >>
       /\ \A i \in 1..MaxLen : tally[k][i] = NoTally
       /\ loops[k].pc = "timer"
       /\ \A k2 \in JobIds : loops[k2].job # k

\* The response of a second start, sent while the run of the first is suspended
\* in sendMail.
C12_Witness ==
  /\ last.op = "start"
  /\ last.k = 2
  /\ loops[1].pc = "sending"
  /\ loops[1].email = last.email
  /\ Len(jobs[2].data) = 2

\* ---------------------------------------------------------------- C13
\* C13: every accepted start is followed by a run of processEmailJob over that
\* request's own recipient list which emits exactly one complete event, after
\* which the job is absent from the store.  Stated for the runs that have come to
\* rest: once every scheduled call has returned, nothing further can happen for
\* any request, so by then each request's run must have taken place.
C13_EveryStartRunsItsList ==
  (\A k \in 1..nstarts : loops[k].pc = "done") =>
    \A j \in 1..nstarts :
      /\ \E k \in 1..nstarts :
           /\ loops[k].job = j
           /\ Len(EventsOfType(k, "complete")) = 1
      /\ emailJobs[jobs[j].email] # j

\* ---------------------------------------------------------------- C14
\* C14: a start request with missing credentials, with a missing or invalid
\* recipient source (no file, no manual data, an unknown mode, manual data that
\* is not a list of records) or with an empty list creates or replaces no job
\* and schedules no processEmailJob call: every job object ever created, and so
\* every call ever scheduled, comes from a non-empty list, and a rejected request
\* leaves the store, the calls and the published events as they were.
C14_InvalidStartRejected ==
  [][/\ \A j \in JobIds :
          jobs'[j].status # "none" => jobs'[j].listData /\ Len(jobs'[j].data) > 0
     /\ last'.op = "startRejected" =>
          UNCHANGED <<emailJobs, jobs, nstarts, loops, emitted, tally, conns>>]_vars

\* ---------------------------------------------------------------- C15
\* C15: a job's record leaves the store only through that job's own completion,
\* in the step that publishes its complete event: whenever the store's entry for
\* an identity stops being job j, the step is the end of a processEmailJob call
\* that ran over j and it published a complete event last.
C15_RemovedOnlyByOwnCompletion ==
  [][\A e \in Identities :
       (emailJobs[e] # 0 /\ emailJobs'[e] # emailJobs[e]) =>
         /\ last'.op \in LoopOps
         /\ loops'[last'.k].pc = "done"
         /\ loops'[last'.k].job = emailJobs[e]
         /\ Len(last'.events) > 0
         /\ last'.events[Len(last'.events)].type = "complete"]_vars

\* ---------------------------------------------------------------- C16
\* The state a run of processEmailJob would start from if no write failed.
AllWritable(W) ==
  [W EXCEPT !.conns = [c \in ConnIds |->
                         IF W.conns[c].st = "lost" THEN [W.conns[c] EXCEPT !.st = "open"]
                         ELSE W.conns[c]]]

\* The run of processEmailJob call k that the handler named op performs.
StepOf(W, op, k) ==
  CASE op = "sent" -> Resume(W, k, TRUE)
    [] op = "sendFailed" -> Resume(W, k, FALSE)
    [] op = "delayDone" -> RunIter(W, k, W.loops[k].i + 1)
    [] op = "setupFail" -> Enter(W, k, FALSE)
    [] OTHER -> Enter(W, k, TRUE)

RecipientOf(ev) ==
  IF ev.type = "log" THEN ev.row
  ELSE IF ev.type = "progress" THEN ev.current
  ELSE 0

\* C17: for a run whose identity receives no other start while it is pending or
\* running, the progress events carry current = 1, 2, ... in that order (the m-th
\* progress event is that of the m-th recipient), and a log event referring to
\* recipient i is emitted before every event referring to a recipient j > i.
C17_EventsInInputOrder ==
  \A k \in JobIds :
    (loops[k].job # 0 /\ ~loops[k].shared) =>
      /\ LET P == EventsOfType(k, "progress")
         IN \A m \in 1..Len(P) : P[m].current = m
      /\ \A n1 \in 1..Len(emitted[k]), n2 \in 1..Len(emitted[k]) :
           (/\ emitted[k][n1].type = "log"
            /\ RecipientOf(emitted[k][n1]) >= 1
            /\ RecipientOf(emitted[k][n2]) > RecipientOf(emitted[k][n1])) => n1 < n2

\* ---------------------------------------------------------------- C18
\* The templates that render: the built-in variant, or the custom variant with a
\* body.
RendersSuccessfully(job) ==
  \/ job.userType = "navneet"
  \/ job.userType = "other" /\ job.customEmailBody

\* C18: for a run whose identity receives no other start while it is pending or
\* running and whose transport setup succeeds, the one complete event reports
\* success = the number of recipients delivered and failed = the number skipped,
\* failed in rendering or failed in delivery, with success + failed = total, and
\* transporter.sendMail is invoked once for each recipient that has every
\* required field and renders, and for no other.
C18_CompleteCountsRecipients ==
  \A k \in JobIds :
    (loops[k].pc = "done" /\ Started(k) /\ ~loops[k].shared) =>
      LET job == jobs[loops[k].job]
          Rows == 1..Len(job.data)
          Sendable == {i \in Rows : ~LacksRequiredField(job.data[i]) /\ RendersSuccessfully(job)}
          Delivered == {i \in Rows : HasLog(k, "sent", i)}
          DeliveryFailed == {i \in Sendable : HasLog(k, "failed", i)}
          C == EventsOfType(k, "complete")
      IN /\ Len(C) = 1
         /\ C[1] = emitted[k][Len(emitted[k])]
         /\ C[1].success = Cardinality(Delivered)
         /\ C[1].failed = Cardinality((Rows \ Sendable) \cup DeliveryFailed)
         /\ C[1].success + C[1].failed = job.total
         /\ job.total = Len(job.data)
         /\ Delivered \cup DeliveryFailed = Sendable
         /\ Delivered \cap DeliveryFailed = {}
         /\ \A i \in Rows : tally[k][i].sendMail = IF i \in Sendable THEN 1 ELSE 0

\* A finished run of two recipients: one delivered, one whose delivery failed.
C18_Witness ==
  \E k \in JobIds :
    /\ loops[k].pc = "done" /\ Started(k) /\ ~loops[k].shared
    /\ Len(DataOf(k)) = 2
    /\ HasLog(k, "sent", 1)
    /\ HasLog(k, "failed", 2)
    /\ tally[k][2].sendMail = 1
    /\ emitted[k][Len(emitted[k])] = CompleteEv(1, 1)

\* A finished run with a skipped recipient and one that failed in rendering.
C18_WitnessSkipAndRender ==
  \E k \in JobIds :
    /\ loops[k].pc = "done" /\ Started(k) /\ ~loops[k].shared
    /\ Len(DataOf(k)) = 2
    /\ LacksRequiredField(DataOf(k)[1])
    /\ ~RendersSuccessfully(jobs[loops[k].job])
    /\ emitted[k][Len(emitted[k])] = CompleteEv(0, 2)

\* ---------------------------------------------------------------- C19
\* C19: after each recipient other than the last, a skipped one included, the
\* run suspends once for the fixed delay before it touches the next recipient,
\* and after the last recipient it does not suspend before the complete event.
C19_DelayBetweenRecipients ==
  \A k \in JobIds :
    (loops[k].job # 0 /\ Started(k)) =>
      \A i \in 1..Len(DataOf(k)) :
        /\ (i < Len(DataOf(k)) /\ (loops[k].pc = "done" \/ (Active(k) /\ i < loops[k].i))) =>
             tally[k][i].delay = 1
        /\ i = Len(DataOf(k)) => tally[k][i].delay = 0

\* ---------------------------------------------------------------- C20
\* The number of transporter.sendMail calls made for recipient i of the request
\* that created job j, over all processEmailJob calls that ran over j.
DeliveriesOf(j, i) ==
  LET f[n \in 0..MaxStarts] ==
        IF n = 0 THEN 0
        ELSE f[n - 1] + (IF loops[n].job = j THEN tally[n][i].sendMail ELSE 0)
  IN f[MaxStarts]

\* C20: over every sequence of starts, delivery is invoked at most once for any
\* recipient of an accepted request, and once every scheduled call has returned
\* it has been invoked exactly once for each recipient of the request that has
\* every required field and renders (unless the transport setup failed for the
\* request's job): no retry, no duplicate, no recipient lost.
C20_EachRecipientDeliveredOnce ==
  \A j \in 1..nstarts :
    \A i \in 1..Len(jobs[j].data) :
      /\ DeliveriesOf(j, i) <= 1
      /\ (/\ \A k \in 1..nstarts : loops[k].pc = "done"
          /\ ~\E k \in 1..nstarts : loops[k].job = j /\ SetupFailed(k)) =>
           DeliveriesOf(j, i) =
             IF ~LacksRequiredField(jobs[j].data[i]) /\ RendersSuccessfully(jobs[j]) THEN 1 ELSE 0

\* ---------------------------------------------------------------- sendEmail, custom variant
\* A text is a sequence of tokens, each a piece of the string:
\*   "x", "N", "F", "S", "C", "E", "R", "L"   one ordinary character each
\*   " " and "nl"                             a space, a line break
\*   "open"                                   the text  ${Link ? `
\*   "close"                                  the text  ` : ''}
\*   "${firstName}", "${Name}", ...           the text of a plain placeholder
\*   "$&"                                     the two characters $ and &
MaxBody == 4

BodyTokens == {"x", "nl", "open", "close", "${firstName}", "${Name}", "${Company}", "${Link}"}
BodyInputs == SeqsUpTo(BodyTokens, MaxBody) \ {<< >>}

\* The columns of the row: Name with and without a space, and values that
\* contain the text of a placeholder or of a replacement pattern.
RenderRowInputs ==
  [Name : {<<"N">>, <<"F", " ", "S">>, <<"${Company}">>},
   Company : {<<"C">>, <<"${Name}">>, <<"$&">>},
   Email : {<<"E">>},
   Role : {<<"R">>},
   Link : {<< >>, <<"L">>}]

\* Line 284-285: Name.split(' ')[0]
RECURSIVE FirstName(_)
FirstName(name) ==
  IF name = << >> \/ Head(name) = " " THEN << >>
  ELSE <<Head(name)>> \o FirstName(Tail(name))

\* String.prototype.trim (line 632)
Blank(tok) == tok \in {" ", "nl"}

RECURSIVE TrimStart(_)
TrimStart(t) == IF t # << >> /\ Blank(Head(t)) THEN TrimStart(Tail(t)) ELSE t

RECURSIVE TrimEnd(_)
TrimEnd(t) == IF t # << >> /\ Blank(t[Len(t)]) THEN TrimEnd(SubSeq(t, 1, Len(t) - 1)) ELSE t

Trim(t) == TrimEnd(TrimStart(t))

\* Lines 635-645: the body between the head and the closing tag, each on its own lines.
Wrap(body) == <<"x", "nl">> \o body \o <<"nl", "x">>

\* The end of the match of linkRegex that begins at an "open" at position p:
\* (.*?) is lazy and . matches no line break, so it is the first "close" after p
\* provided no line break lies between; 0 if the regex does not match at p.
MatchEnd(t, p) ==
  LET Closes == {q \in (p + 1)..Len(t) : t[q] = "close"}
  IN IF Closes = {} THEN 0
     ELSE LET q == CHOOSE q0 \in Closes : \A q1 \in Closes : q0 <= q1
          IN IF \E n \in (p + 1)..(q - 1) : t[n] = "nl" THEN 0 ELSE q

\* Lines 648-651: emailTemplate.replace(linkRegex, (match, content) => Link ? content : ''),
\* scanning from position p.
RECURSIVE ResolveLink(_, _, _)
ResolveLink(t, p, link) ==
  IF p > Len(t) THEN << >>
  ELSE IF t[p] = "open" /\ MatchEnd(t, p) # 0
       THEN (IF link # << >> THEN SubSeq(t, p + 1, MatchEnd(t, p) - 1) ELSE << >>)
              \o ResolveLink(t, MatchEnd(t, p) + 1, link)
       ELSE <<t[p]>> \o ResolveLink(t, p + 1, link)

\* The replacement string of a .replace call as it is inserted for a match of ph:
\* the pattern $& stands for the matched text.
RECURSIVE Expand(_, _)
Expand(value, ph) ==
  IF value = << >> THEN << >>
  ELSE (IF Head(value) = "$&" THEN <<ph>> ELSE <<Head(value)>>) \o Expand(Tail(value), ph)

\* One .replace(/\$\{ph\}/g, value): every occurrence in t, in one scan.
RECURSIVE ReplaceAll(_, _, _)
ReplaceAll(t, ph, value) ==
  IF t = << >> THEN << >>
  ELSE (IF Head(t) = ph THEN Expand(value, ph) ELSE <<Head(t)>>) \o ReplaceAll(Tail(t), ph, value)

\* Lines 654-660: the chain of six .replace calls, each on the result of the one before.
SubstitutePlainText(t, row) ==
  LET t1 == ReplaceAll(t, "${firstName}", FirstName(row.Name))
      t2 == ReplaceAll(t1, "${Name}", row.Name)
      t3 == ReplaceAll(t2, "${Company}", row.Company)
      t4 == ReplaceAll(t3, "${Email}", row.Email)
      t5 == ReplaceAll(t4, "${Role}", row.Role)
  IN ReplaceAll(t5, "${Link}", row.Link)

\* Lines 632-651
ResolveConditional ==
  /\ render.stage = "input"
  /\ render' = [render EXCEPT !.stage = "resolved",
                              !.resolved = ResolveLink(Wrap(Trim(render.body)), 1, render.row.Link)]
  /\ UNCHANGED <<emailJobs, jobs, nstarts, loops, clients, conns, nconns, lastId, emitted, tally, last>>

\* Lines 654-660
SubstitutePlain ==
  /\ render.stage = "resolved"
  /\ render' = [render EXCEPT !.stage = "done",
                              !.html = SubstitutePlainText(render.resolved, render.row)]
  /\ UNCHANGED <<emailJobs, jobs, nstarts, loops, clients, conns, nconns, lastId, emitted, tally, last>>

\* One call of sendEmail for the custom variant, over every body and row.
RenderInit ==
  /\ emailJobs = [e \in Identities |-> 0]
  /\ jobs = [j \in JobIds |-> NoJob]
  /\ nstarts = 0
  /\ loops = [k \in JobIds |-> NoLoop]
  /\ clients = [id \in ConnIds |-> 0]
  /\ conns = [c \in ConnIds |-> NoConn]
  /\ nconns = 0
  /\ lastId = 0
  /\ emitted = [k \in JobIds |-> << >>]
  /\ tally = [k \in JobIds |-> [i \in 1..MaxLen |-> NoTally]]
  /\ last = NoLast
  /\ render \in {[NoRender EXCEPT !.stage = "input", !.body = b, !.row = r] :
                   b \in BodyInputs, r \in RenderRowInputs}

RenderNext ==
  \/ ResolveConditional
  \/ SubstitutePlain

RenderSpec == RenderInit /\ [][RenderNext]_vars

\* ---------------------------------------------------------------- C21
\* The conditional constructs of a text are well formed: its "open" and "close"
\* tokens alternate, beginning with an "open" and ending with a "close".
Delimiters(t) == SelectSeq(t, LAMBDA tok : tok \in {"open", "close"})

WellFormedConditionals(t) ==
  LET d == Delimiters(t)
  IN /\ Len(d) > 0
     /\ Len(d) % 2 = 0
     /\ \A n \in 1..Len(d) : d[n] = IF n % 2 = 1 THEN "open" ELSE "close"

\* What the resolution of the constructs is to yield: with a link, each fragment
\* in place of its construct; without, the construct removed, fragment included.
RECURSIVE WithoutConstructs(_, _)
WithoutConstructs(t, inside) ==
  IF t = << >> THEN << >>
  ELSE IF Head(t) = "open" THEN WithoutConstructs(Tail(t), TRUE)
  ELSE IF Head(t) = "close" THEN WithoutConstructs(Tail(t), FALSE)
  ELSE (IF inside THEN << >> ELSE <<Head(t)>>) \o WithoutConstructs(Tail(t), inside)

ResolvedAsSpecified(t, link) ==
  IF link # << >> THEN SelectSeq(t, LAMBDA tok : tok \notin {"open", "close"})
  ELSE WithoutConstructs(t, FALSE)

\* C21: for every custom body in which the conditional-link construct occurs, a
\* fragment that spans several lines included, rendering resolves it: with a
\* non-empty Link the output holds the fragment's content with its inner
\* placeholders substituted, with an empty or absent Link the whole construct is
\* gone, and no piece of the construct's syntax is left in the output.
C21_ConditionalLinkResolved ==
  LET t == Wrap(Trim(render.body))
  IN (render.stage = "done" /\ WellFormedConditionals(t)) =>
       /\ render.resolved = ResolvedAsSpecified(t, render.row.Link)
       /\ render.html = SubstitutePlainText(ResolvedAsSpecified(t, render.row.Link), render.row)
       /\ \A n \in 1..Len(render.html) : render.html[n] \notin {"open", "close"}

\* ---------------------------------------------------------------- C22
\* The value a plain placeholder stands for.
FieldValue(tok, row) ==
  CASE tok = "${firstName}" -> FirstName(row.Name)
    [] tok = "${Name}" -> row.Name
    [] tok = "${Company}" -> row.Company
    [] tok = "${Email}" -> row.Email
    [] tok = "${Role}" -> row.Role
    [] tok = "${Link}" -> row.Link

PlainPlaceholders == {"${firstName}", "${Name}", "${Company}", "${Email}", "${Role}", "${Link}"}

\* One pass over the text: each placeholder gives way to its field value as it
\* is, and the values put in are not looked at again.
RECURSIVE SubstitutedOnce(_, _)
SubstitutedOnce(t, row) ==
  IF t = << >> THEN << >>
  ELSE (IF Head(t) \in PlainPlaceholders THEN FieldValue(Head(t), row) ELSE <<Head(t)>>)
         \o SubstitutedOnce(Tail(t), row)

\* C22: the plain substitution is applied exactly once to the conditional-resolved
\* text and is not recursive: the output is that text with every field value
\* verbatim at each occurrence of its placeholder, also when a value contains the
\* text of another field's placeholder.
C22_PlainSubstitutionOnce ==
  render.stage = "done" => render.html = SubstitutedOnce(render.resolved, render.row)

====
